---- MODULE Spec2Model ----
(***************************************************************************)
(* Model of src/app.py: the COVID-19 dashboard script.                     *)
(*                                                                         *)
(* Streamlit runs the whole script once per user interaction.  One run is  *)
(* load_data() (memoized by st.cache_data), the sidebar widgets, the       *)
(* filter of the table into the view df, and the four KPI scalars.  An     *)
(* uncaught exception ends the run.  The charts and the upload tab (lines  *)
(* 109-160) only read df and are not modelled.                             *)
(*                                                                         *)
(* A table is [columns |-> set of column names, rows |-> sequence of rows],*)
(* a row being a function from the column names (and "idx", the pandas     *)
(* index label) to the cell values.  Dates are day ordinals once parsed,   *)
(* ISO text in the file and in the KPI.  An optional value is a sequence   *)
(* of length 0 (None / NaN) or 1.                                          *)
(*                                                                         *)
(* Modelled inputs: files of 1..MaxRows lines over any subset of the four  *)
(* columns the script reads, every cell filled; a selectbox choice among   *)
(* the countries of the table; any two days as the date range, in either   *)
(* order.                                                                  *)
(***************************************************************************)
EXTENDS Integers, Sequences, FiniteSets

VARIABLES
    file,        \* data/covid_cleaned_features.csv as it is on disk (line 25)
    cache,       \* what st.cache_data holds for load_data (line 23)
    reads,       \* how often line 25 has read the file
    df_all,      \* the table of this run (line 38), None before it exists
    country,     \* the selectbox value (lines 45-48)
    date_range,  \* the two dates of st.date_input (lines 65-68)
    df,          \* the view (lines 73-77)
    summary,     \* total_cases, max_daily, avg_daily, last_date (lines 96-99)
    outcome      \* how the last run ended

vars == <<file, cache, reads, df_all, country, date_range, df, summary, outcome>>

\* ------------------------------------------------------------------ bounds
MaxRows == 2
MaxDate == 2
MaxReads == 2

\* ------------------------------------------------------------- value sets
None == <<>>
Some(x) == <<x>>

CountryOrder == <<"A", "B">>
Countries == {CountryOrder[i] : i \in 1..Len(CountryOrder)}

DateText == <<"2020-01-22", "2020-01-23", "2020-01-24", "2020-01-25">>
Dates == 1..MaxDate

\* Cumulative counts a file can hold, and the New_Cases a file that brings its
\* own column holds (a value no difference of two counts gives).
ConfirmedValues == {10, 15}
SourceNewCases == {7}

AllColumns == {"Country", "Date", "Confirmed", "New_Cases"}

\* Every full line a source file can hold.  A file keeps the cells of its own
\* columns; columns the modelled lines never read (Deaths, Recovered,
\* NewConfirmed) are left out.
FullRows ==
    [Country : Countries, Date : {DateText[d] : d \in Dates},
     Confirmed : ConfirmedValues, New_Cases : SourceNewCases]

MakeFile(cols, fr) ==
    [columns |-> cols, rows |-> [i \in DOMAIN fr |-> [k \in cols |-> fr[i][k]]]]

\* TLC keeps a function constructor unevaluated and recomputes a cell at each
\* use; comparing the value makes it compute the cells once.
Value(x) == IF x = x THEN x ELSE x

\* --------------------------------------------------------------- load_data
\* pd.read_csv: the rows in file order, labelled 0, 1, 2, ...
read_csv(f) ==
    Value([columns |-> f.columns,
           rows |-> [i \in 1..Len(f.rows) |->
                       [k \in f.columns \cup {"idx"} |->
                          IF k = "idx" THEN i - 1 ELSE f.rows[i][k]]]])

\* pd.to_datetime on one cell: ISO text to its day ordinal.
to_datetime(s) == CHOOSE d \in 1..Len(DateText) : DateText[d] = s

\* Timestamp.strftime("%Y-%m-%d")
strftime(d) == DateText[d]

\* df[col] = values (values indexed like t.rows); adds the column if new.
SetColumn(t, col, values) ==
    Value([columns |-> t.columns \cup {col},
           rows |-> [i \in 1..Len(t.rows) |->
                       [k \in DOMAIN t.rows[i] \cup {col} |->
                          IF k = col THEN values[i] ELSE t.rows[i][k]]]])

\* df["Date"] = pd.to_datetime(df["Date"])
ParseDates(t) ==
    SetColumn(t, "Date", [i \in 1..Len(t.rows) |-> to_datetime(t.rows[i].Date)])

\* Python's order on the country names.
StrRank(s) == CHOOSE i \in 1..Len(CountryOrder) : CountryOrder[i] = s

KeyLess(a, b) ==
    \/ StrRank(a.Country) < StrRank(b.Country)
    \/ a.Country = b.Country /\ a.Date < b.Date

\* The place of row i after a stable sort on (Country, Date).
SortedPlace(rows, i) ==
    1 + Cardinality({j \in 1..Len(rows) :
                        \/ KeyLess(rows[j], rows[i])
                        \/ ~KeyLess(rows[i], rows[j]) /\ j < i})

sort_values_unsorted(t) == t

\* df.sort_values(["Country", "Date"]): a stable lexicographic sort.
sort_values(t) ==
    Value([columns |-> t.columns,
           rows |-> [p \in 1..Len(t.rows) |->
                       t.rows[CHOOSE i \in 1..Len(t.rows) : SortedPlace(t.rows, i) = p]]])

\* df.groupby("Country")["Confirmed"].diff(): each row minus the previous row
\* of its group in table order, NaN for the first row of a group.
groupby_diff(rows) ==
    Value([i \in 1..Len(rows) |->
             LET before == {j \in 1..(i - 1) : rows[j].Country = rows[i].Country}
             IN  IF before = {} THEN None
                 ELSE LET prev == CHOOSE j \in before : \A k \in before : k <= j
                      IN  Some(rows[i].Confirmed - rows[prev].Confirmed)])

\* Series.fillna(v) on one cell
fillna(x, v) == IF x = None THEN v ELSE x[1]

\* lines 31-32
DerivedNewCases(t) ==
    LET s == sort_values(t)
        d == groupby_diff(s.rows)
    IN  SetColumn(s, "New_Cases", [i \in 1..Len(s.rows) |-> fillna(d[i], 0)])

ZeroNewCases_ones(t) ==
    SetColumn(t, "New_Cases", [i \in 1..Len(t.rows) |-> 1])

\* line 34
ZeroNewCases(t) ==
    SetColumn(t, "New_Cases", [i \in 1..Len(t.rows) |-> 0])

Raise(exc, key) == [raised |-> TRUE, exc |-> exc, key |-> key, value |-> None]
Return(v) == [raised |-> FALSE, exc |-> "", key |-> "", value |-> Some(v)]

EnsureNewCases_always(t) ==
    IF "Confirmed" \in t.columns
    THEN IF {"Country", "Date"} \subseteq t.columns
         THEN Return(DerivedNewCases(t))
         ELSE Raise("KeyError", "Country")
    ELSE Return(ZeroNewCases(t))

\* lines 28-34: "Ensure New_Cases exists".  sort_values raises KeyError on
\* the first key that is no column.
EnsureNewCases(t) ==
    IF "New_Cases" \notin t.columns
    THEN IF "Confirmed" \in t.columns
         THEN IF "Country" \notin t.columns THEN Raise("KeyError", "Country")
              ELSE IF "Date" \notin t.columns THEN Raise("KeyError", "Date")
              ELSE Return(DerivedNewCases(t))
         ELSE Return(ZeroNewCases(t))
    ELSE Return(t)

load_data_sort_first(f) ==
    IF {"Confirmed"} \subseteq f.columns /\ "New_Cases" \notin f.columns
       /\ "Country" \notin f.columns
    THEN Raise("KeyError", "Country")
    ELSE IF "Date" \notin f.columns THEN Raise("KeyError", "Date")
    ELSE EnsureNewCases(ParseDates(read_csv(f)))

\* lines 24-36, the body of load_data
load_data(f) ==
    IF "Date" \notin f.columns THEN Raise("KeyError", "Date")
    ELSE EnsureNewCases(ParseDates(read_csv(f)))

CacheHit_never(c) == FALSE

\* line 23, @st.cache_data: a stored return value is handed out again
CacheHit(c) == c # None

\* ------------------------------------------------------------- the widgets
\* line 47: sorted(df_all["Country"].unique()), the choices of the selectbox
CountryOptions(t) == {c \in Countries : \E i \in 1..Len(t.rows) : t.rows[i].Country = c}

\* pd.to_datetime on a date picked in st.date_input: the same calendar day
PickedDay(d) == d

\* ------------------------------------------------------------- FILTER DATA
InRange_exclusive(r, c, lo, hi) ==
    /\ r.Country = c
    /\ r.Date >= PickedDay(lo)
    /\ r.Date < PickedDay(hi)

\* lines 74-76: the boolean mask, row by row
InRange(r, c, lo, hi) ==
    /\ r.Country = c
    /\ r.Date >= PickedDay(lo)
    /\ r.Date <= PickedDay(hi)

Mask(t, c, lo, hi) ==
    [columns |-> t.columns,
     rows |-> SelectSeq(t.rows, LAMBDA r : InRange(r, c, lo, hi))]

FILTER_DATA_in_place(t, c, lo, hi) ==
    [df_all |-> Mask(t, c, lo, hi), df |-> Mask(t, c, lo, hi)]

\* lines 73-77: df = df_all[mask]; what the statement leaves in the two names
FILTER_DATA(t, c, lo, hi) ==
    [df_all |-> t, df |-> Mask(t, c, lo, hi)]

\* ------------------------------------------------------------- KPI METRICS
Column(v, col) == Value([i \in 1..Len(v.rows) |-> v.rows[i][col]])

\* Series.max(): NaN (NaT) on an empty series
Series_max(xs) ==
    IF Len(xs) = 0 THEN None
    ELSE Some(CHOOSE m \in {xs[i] : i \in 1..Len(xs)} :
                 \A i \in 1..Len(xs) : xs[i] <= m)

RECURSIVE SeqSum(_)
SeqSum(xs) == IF Len(xs) = 0 THEN 0 ELSE xs[1] + SeqSum(Tail(xs))

\* Series.mean(): the exact quotient kept as numerator and denominator
Series_mean(xs) ==
    IF Len(xs) = 0 THEN None ELSE Some([num |-> SeqSum(xs), den |-> Len(xs)])

int_floor(q) == q.num \div q.den

\* int() of a float: the fraction is dropped, toward zero
int(q) == IF q.num >= 0 THEN q.num \div q.den ELSE -((-q.num) \div q.den)

\* line 96, on a view with rows
total_cases(v) ==
    IF "Confirmed" \in v.columns THEN Series_max(Column(v, "Confirmed"))[1] ELSE 0

\* lines 96-99.  On a view without rows max() and mean() are NaN and int(NaN)
\* raises ValueError (line 96, or line 97 without a Confirmed column).
KPI_METRICS(v) ==
    IF Len(v.rows) = 0 THEN Raise("ValueError", "")
    ELSE Return([total_cases |-> total_cases(v),
                 max_daily |-> Series_max(Column(v, "New_Cases"))[1],
                 avg_daily |-> int(Series_mean(Column(v, "New_Cases"))[1]),
                 last_date |-> strftime(Series_max(Column(v, "Date"))[1])])

\* ------------------------------------------------------------ the outcomes
NotRun == [exc |-> "", key |-> "", at |-> "start"]
Completed == [exc |-> "", key |-> "", at |-> "end"]
Failed(r, where) == [exc |-> r.exc, key |-> r.key, at |-> where]

\* ----------------------------------------------------------------- actions
Init ==
    /\ \E n \in 1..MaxRows, cols \in SUBSET AllColumns :
          \E fr \in [1..n -> FullRows] : file = MakeFile(cols, fr)
    /\ cache = None
    /\ reads = 0
    /\ df_all = None
    /\ country = None
    /\ date_range = None
    /\ df = None
    /\ summary = None
    /\ outcome = NotRun

\* One run of the script, the widgets at a country c of the selectbox and a
\* date range [lo, hi].
Run ==
    LET hit == CacheHit(cache)
        loaded == IF hit THEN Return(cache[1]) ELSE load_data(file)
    IN  /\ ~hit => reads < MaxReads
        /\ reads' = IF hit THEN reads ELSE reads + 1
        /\ cache' = IF hit \/ loaded.raised THEN cache ELSE loaded.value
        /\ file' = file
        /\ IF loaded.raised
           THEN /\ df_all' = None
                /\ country' = None
                /\ date_range' = None
                /\ df' = None
                /\ summary' = None
                /\ outcome' = Failed(loaded, "load_data")
           ELSE IF "Country" \notin loaded.value[1].columns
           THEN /\ df_all' = loaded.value
                /\ country' = None
                /\ date_range' = None
                /\ df' = None
                /\ summary' = None
                /\ outcome' = Failed(Raise("KeyError", "Country"), "selectbox")
           ELSE \E c \in CountryOptions(loaded.value[1]), lo \in Dates, hi \in Dates :
                   LET ns == FILTER_DATA(loaded.value[1], c, lo, hi)
                       kpi == KPI_METRICS(ns.df)
                   IN  /\ df_all' = Some(ns.df_all)
                       /\ country' = Some(c)
                       /\ date_range' = <<lo, hi>>
                       /\ df' = Some(ns.df)
                       /\ summary' = kpi.value
                       /\ outcome' = IF kpi.raised THEN Failed(kpi, "kpi") ELSE Completed

Next == Run

Spec == Init /\ [][Next]_vars

\* The source file is rewritten on disk between two runs.
SmallFiles == {MakeFile(cols, <<r>>) : cols \in SUBSET AllColumns, r \in FullRows}

InitCache ==
    /\ file \in SmallFiles
    /\ cache = None
    /\ reads = 0
    /\ df_all = None
    /\ country = None
    /\ date_range = None
    /\ df = None
    /\ summary = None
    /\ outcome = NotRun

FileChange ==
    /\ file' \in SmallFiles \ {file}
    /\ UNCHANGED <<cache, reads, df_all, country, date_range, df, summary, outcome>>

NextCache ==
    \/ Run
    \/ FileChange

SpecCache == InitCache /\ [][NextCache]_vars

\* ------------------------------------------------------------------ claims
Ran == outcome.at # "start"
Loaded == cache # None
Table == cache[1]
View == df[1]

RowsOf(t, c) == SelectSeq(t.rows, LAMBDA r : r.Country = c)

\* Every source row is in the table once, under its index label, with its
\* cells (the date parsed).
SameRowsAsSource(t) ==
    /\ Len(t.rows) = Len(file.rows)
    /\ \A i \in 1..Len(file.rows) :
          \E k \in 1..Len(t.rows) :
             /\ t.rows[k].idx = i - 1
             /\ t.rows[k].Date = to_datetime(file.rows[i].Date)
             /\ \A col \in file.columns \ {"Date"} : t.rows[k][col] = file.rows[i][col]

DeltasByCountry(t) ==
    \A c \in Countries :
       LET g == RowsOf(t, c)
       IN  \A i \in 1..Len(g) :
              IF i = 1 THEN g[i].New_Cases = 0
              ELSE /\ g[i - 1].Date <= g[i].Date
                   /\ g[i].New_Cases = g[i].Confirmed - g[i - 1].Confirmed

\* C1 as stated: for every source table with a Confirmed column, each country's
\* rows of the loaded table are in ascending Date order, the first with
\* New_Cases 0 and each later one with its Confirmed minus its predecessor's.
C1_Original ==
    (Loaded /\ {"Confirmed", "Country"} \subseteq file.columns)
        => DeltasByCountry(Table)

\* C1 amended: the same, for source tables with a Confirmed column and no
\* New_Cases column of their own; the table holds exactly the source rows.
C1_NewCasesAreDeltas ==
    (Loaded /\ "Confirmed" \in file.columns /\ "New_Cases" \notin file.columns)
        => /\ SameRowsAsSource(Table)
           /\ DeltasByCountry(Table)

C1_Witness ==
    /\ Loaded
    /\ "Confirmed" \in file.columns /\ "New_Cases" \notin file.columns
    /\ Len(file.rows) >= 2
    /\ file.rows[1].Country = file.rows[2].Country
    /\ to_datetime(file.rows[1].Date) > to_datetime(file.rows[2].Date)
    /\ \E k \in 1..Len(Table.rows) : Table.rows[k].New_Cases # 0

Matching(t, c, lo, hi) ==
    {i \in 1..Len(t.rows) : t.rows[i].Country = c /\ lo <= t.rows[i].Date /\ t.rows[i].Date <= hi}

\* C2: after every run that filters, the view holds exactly the table rows of
\* the selected country dated within [lower, upper], bounds included, each
\* once; over the full date range it has as many rows as the table has for
\* the country.
C2_ViewIsExact ==
    df # None =>
        LET t == df_all[1]
            c == country[1]
            lo == date_range[1]
            hi == date_range[2]
            m == Matching(t, c, lo, hi)
        IN  /\ View.columns = t.columns
            /\ Len(View.rows) = Cardinality(m)
            /\ \A i \in m : \E k \in 1..Len(View.rows) : View.rows[k] = t.rows[i]
            /\ \A k \in 1..Len(View.rows) : \E i \in m : View.rows[k] = t.rows[i]
            /\ (lo = 1 /\ hi = MaxDate) => Len(View.rows) = Len(RowsOf(t, c))

C2_Witness ==
    /\ df # None
    /\ Len(View.rows) >= 1
    /\ Len(View.rows) < Len(df_all[1].rows)
    /\ date_range[1] = date_range[2]
    /\ View.rows[1].Date = date_range[2]

Absent == "absent"

\* C3: a view without rows gets the summary total 0, max 0, average 0 and an
\* absent last date, and the run does not fail.
C3_EmptyViewSummary ==
    (df # None /\ Len(View.rows) = 0) =>
        /\ outcome = Completed
        /\ summary = Some([total_cases |-> 0, max_daily |-> 0, avg_daily |-> 0,
                           last_date |-> Absent])

\* C4: a date range given as (a, b) with a > b yields the view and the summary
\* of the range (b, a).
C4_SwappedBounds ==
    (df # None /\ date_range[1] > date_range[2]) =>
        LET swapped == Mask(df_all[1], country[1], date_range[2], date_range[1])
        IN  /\ View = swapped
            /\ summary = KPI_METRICS(swapped).value

MissingRequired == {"Date", "Country"} \ file.columns

\* C5 as stated: a source table lacking Date or Country ends the load in an
\* error naming the missing column(s), and no table is produced.
C5_Original ==
    (Ran /\ MissingRequired # {}) =>
        /\ outcome.exc = "KeyError"
        /\ {outcome.key} = MissingRequired
        /\ cache = None
        /\ df_all = None

\* C5 amended: such a run ends in a KeyError naming one missing column, Date
\* whenever Date is missing and Country otherwise, and computes no view and no
\* summary; load_data itself fails exactly when Date is missing or New_Cases
\* has to be derived from Confirmed, and otherwise returns and stores a table,
\* the error being raised at the country selectbox.
C5_MissingColumnFails ==
    (Ran /\ MissingRequired # {}) =>
        /\ outcome.exc = "KeyError"
        /\ outcome.key = (IF "Date" \notin file.columns THEN "Date" ELSE "Country")
        /\ df = None
        /\ summary = None
        /\ LET inLoad == \/ "Date" \notin file.columns
                         \/ "Confirmed" \in file.columns /\ "New_Cases" \notin file.columns
           IN  IF inLoad
               THEN outcome.at = "load_data" /\ cache = None /\ df_all = None
               ELSE outcome.at = "selectbox" /\ cache # None /\ df_all = cache

C5_Witness ==
    /\ Ran
    /\ MissingRequired = {"Date", "Country"}
    /\ "Confirmed" \in file.columns /\ "New_Cases" \notin file.columns
    /\ outcome.key = "Date"

\* C6: a source without Confirmed and without New_Cases loads into the same
\* rows in the same order, each with New_Cases 0.
C6_ZeroWithoutConfirmed ==
    (Loaded /\ "Confirmed" \notin file.columns /\ "New_Cases" \notin file.columns) =>
        /\ Table.columns = file.columns \cup {"New_Cases"}
        /\ Len(Table.rows) = Len(file.rows)
        /\ \A i \in 1..Len(file.rows) :
              /\ Table.rows[i].idx = i - 1
              /\ Table.rows[i].New_Cases = 0
              /\ Table.rows[i].Date = to_datetime(file.rows[i].Date)
              /\ \A col \in file.columns \ {"Date"} : Table.rows[i][col] = file.rows[i][col]

C6_Witness ==
    /\ Loaded
    /\ file.columns = {"Country", "Date"}
    /\ Len(file.rows) >= 2
    /\ KeyLess(Table.rows[2], Table.rows[1])
    /\ \A i \in 1..Len(Table.rows) : Table.rows[i].New_Cases = 0

NewCasesSum == SeqSum(Column(View, "New_Cases"))

\* C7: for a view with rows the summary is the greatest Confirmed (0 without
\* the column), the greatest New_Cases, the mean of New_Cases with its
\* fraction dropped toward zero, and the greatest Date as text.
C7_Summary ==
    (df # None /\ Len(View.rows) > 0) =>
        /\ summary # None
        /\ LET s == summary[1]
               n == Len(View.rows)
               I == 1..Len(View.rows)
           IN  /\ IF "Confirmed" \in View.columns
                  THEN /\ \E i \in I : View.rows[i].Confirmed = s.total_cases
                       /\ \A i \in I : View.rows[i].Confirmed <= s.total_cases
                  ELSE s.total_cases = 0
               /\ \E i \in I : View.rows[i].New_Cases = s.max_daily
               /\ \A i \in I : View.rows[i].New_Cases <= s.max_daily
               /\ IF NewCasesSum >= 0
                  THEN /\ s.avg_daily >= 0
                       /\ s.avg_daily * n <= NewCasesSum
                       /\ NewCasesSum < (s.avg_daily + 1) * n
                  ELSE /\ s.avg_daily <= 0
                       /\ s.avg_daily * n >= NewCasesSum
                       /\ NewCasesSum > (s.avg_daily - 1) * n
               /\ \E i \in I : /\ DateText[View.rows[i].Date] = s.last_date
                               /\ \A j \in I : View.rows[j].Date <= View.rows[i].Date

C7_Witness ==
    /\ summary # None
    /\ Len(View.rows) = 2
    /\ "Confirmed" \in View.columns
    /\ NewCasesSum = -5
    /\ summary[1].avg_daily = -2
    /\ View.rows[1].Date # View.rows[2].Date

\* C8: at the end of every run the table in df_all is, row for row, the table
\* load_data returned, whatever was selected.
C8_TableNotMutated ==
    df_all # None => /\ df_all = cache
                     /\ df_all = load_data(file).value

C8_Witness ==
    /\ df # None
    /\ summary # None
    /\ Len(View.rows) < Len(df_all[1].rows)
    /\ df_all = load_data(file).value

\* C9 as stated: the source file is read at most once in the life of the
\* process.
C9_Original == reads <= 1

\* C9 amended: once a load_data() call has returned, the file is not read
\* again and every later call hands out that same table, also after the file
\* changed; a call that raised stored nothing, and the next run reads the file
\* again.
C9_LoadedOnce ==
    [][Loaded => /\ reads' = reads
                 /\ cache' = cache
                 /\ df_all' = cache]_vars

C9_Witness ==
    /\ Loaded
    /\ outcome = Completed
    /\ load_data(file).value # cache
    /\ df_all = cache
    /\ reads = 1

\* C10: the New_Cases step leaves a table that has the column as it is; a
\* source with its own New_Cases column loads with its rows, order and values
\* as read, and the step applied to a loaded table returns that table.
C10_Idempotent ==
    Loaded =>
        /\ EnsureNewCases(Table) = Return(Table)
        /\ "New_Cases" \in file.columns => Table = ParseDates(read_csv(file))

C10_Witness ==
    /\ Loaded
    /\ {"Country", "Confirmed", "New_Cases"} \subseteq file.columns
    /\ Len(Table.rows) >= 2
    /\ KeyLess(Table.rows[2], Table.rows[1])
    /\ DerivedNewCases(Table) # Table
    /\ EnsureNewCases(Table) = Return(Table)

====
